---- MODULE Spec2Model ----
(***************************************************************************)
(* Client-side navigation of the blog: the document-level mouseover and    *)
(* click listeners installed by appendListeners, and the page prefetcher   *)
(* getClienPageAheadOfTime they share.                                     *)
(*                                                                         *)
(* Every dispatched event starts one invocation of an async listener (a    *)
(* "task").  A task runs synchronously up to its first await, is suspended *)
(* while the network works on its fetch, and its continuation runs in the  *)
(* same microtask checkpoint in which the awaited promise settles, so one  *)
(* action is one synchronous segment of one handler.                       *)
(***************************************************************************)
EXTENDS Integers, Sequences, FiniteSets, TLC

\* ------------------------------------------------------------------ bounds

\* Number of events in one run that pass their listener's guards (opted-in
\* clicks and prefetching hovers); events a listener ignores are not counted.
MaxTasks == 2

\* Number of style elements the head may hold before a prefetch result is
\* applied to it, and number of times one result is applied (SpecStyles).
MaxHead == 2
MaxRounds == 2

\* Number of events dispatched while no listener is attached (SpecFlag) and
\* of qualifying window events (SpecInteraction).
MaxEvents == 2

\* Number of subscriber invocations in one run (SpecObserver) and number of
\* onFirstInteraction registrations (SpecInteraction).
MaxCalls == 4
MaxRegs == 2

\* Number of addScriptToHead calls made by other callers than setupMermaid,
\* number of load and error events the script elements receive, and number
\* of diagram elements of the page (SpecMermaid).
MaxScripts == 2
MaxScriptEvents == 2
MaxDiagrams == 1

\* ------------------------------------------------------- the page's content

\* The elements a page body offers as event targets: four anchors and one
\* element that is not an anchor.
Templates == {"aClick", "aHover", "aPlain", "aOther", "div"}

\* target instanceof HTMLAnchorElement
IsAnchor(tpl) == tpl # "div"

\* target.dataset.clientNavigation ("" when the attribute is absent)
Marker(tpl) ==
    CASE tpl = "aClick" -> "click"
      [] tpl = "aHover" -> "hover"
      [] tpl = "aOther" -> "prefetch"
      [] OTHER -> ""

\* target.href
Href(tpl) ==
    CASE tpl = "aClick" -> "/contact"
      [] tpl = "aHover" -> "/about"
      [] tpl = "aPlain" -> "/contact"
      [] tpl = "aOther" -> "/about"
      [] OTHER -> ""

\* The number of <style> elements in the head of the document served for url
\* with a success status (ok) or with an error status (the error page).
StyleCount(url, ok) ==
    IF ~ok THEN 0
    ELSE CASE url = "/contact" -> 2
           [] url = "/about" -> 1
           [] OTHER -> 0

\* Body 0 is the body of the page as first loaded; body t is the body parsed
\* by the prefetch of task t.  An element is a template inside one body.
BodyIds == 0 .. MaxTasks
Elems == BodyIds \X Templates

InitialUrl == "/"

\* The style elements the initially loaded page has in its head.
InitialHead == << <<0, 1>> >>

NoResult == 0
NoCleanUp == [res |-> 0, id |-> 0]

VARIABLES
    lastEvent,      \* defaultPrevented of the event dispatched last
    tasks,          \* one record per event that passed its listener's guards
    hasExtraMethods,\* per element: the prefetch result Object.assign put on it
    currentCleanUp, \* the stored rollback closure
    head,           \* document.head's style elements, in order
    docBody,        \* document.body (a body id)
    history,        \* the session history's URLs, oldest first
    opLog,          \* every document/history operation performed, in order
    settled,        \* tasks whose prefetch promise fulfilled, in order
    clientNavigation,\* the clientNavigation key of features.json
    installed,      \* where the listeners are attached ("document"), or
                    \* "nothing", or "notInitialized" before the call
    dispatched,     \* the types of the events dispatched that a
                    \* specification records, oldest first
    trial,          \* a prefetch result exercised on its own (see SpecStyles)
    state,          \* StatefulObserver.state
    subscribers,    \* StatefulObserver.subscribers, in insertion order
    calls,          \* every subscriber invocation made, in order
    raised,         \* the outcome of the observer operation performed last
    windowListeners,\* the window events trigger is attached to
    scripts,        \* the script elements addScriptToHead appended to
                    \* document.head, in order, each with its promise
    requested,      \* the sources addScriptToHead was called with, in order
    mermaid         \* setupMermaid: the diagram elements and its callback

\* The variables of the navigation controller, of the feature flag, of the
\* prefetch result exercised on its own and of the observer modules.
navVars == <<lastEvent, tasks, hasExtraMethods, currentCleanUp, head, docBody,
             history, opLog, settled>>
flagVars == <<clientNavigation, installed, dispatched>>
observerVars == <<state, subscribers, calls, raised, windowListeners>>
scriptVars == <<scripts, requested, mermaid>>

vars == <<lastEvent, tasks, hasExtraMethods, currentCleanUp, head, docBody, history,
          opLog, settled, clientNavigation, installed, dispatched, trial,
          state, subscribers, calls, raised, windowListeners, scripts, requested,
          mermaid>>

Range(s) == {s[i] : i \in 1 .. Len(s)}

\* ------------------------------------------------- getClienPageAheadOfTime

\* extraStyles = fetchedHead.querySelectorAll('style'): the style elements
\* of the document parsed for task t of the task list ts, in source order.
extraStyles(ts, t) ==
    [k \in 1 .. StyleCount(Href(ts[t].target[2]), ts[t].ok) |-> <<t, k>>]

\* Node.appendChild: a node already in the parent is moved to the end.
AppendChild(h, node) == SelectSeq(h, LAMBDA x : x # node) \o <<node>>

RECURSIVE AppendAll(_, _, _)
AppendAll(h, styles, i) ==
    IF i > Len(styles) THEN h
    ELSE AppendAll(AppendChild(h, styles[i]), styles, i + 1)

\* appendExtraStyles(targetDocument = document): the head afterwards.
appendExtraStyles(ts, h, t) == AppendAll(h, extraStyles(ts, t), 1)

\* Node.removeChild throws NotFoundError when the node is not a child; the
\* forEach of the rollback closure stops at the first throw.
RECURSIVE RemoveAll(_, _, _)
RemoveAll(h, styles, i) ==
    IF i > Len(styles) THEN [head |-> h, threw |-> FALSE]
    ELSE IF styles[i] \notin Range(h) THEN [head |-> h, threw |-> TRUE]
    ELSE RemoveAll(SelectSeq(h, LAMBDA x : x # styles[i]), styles, i + 1)

\* Faulty variant: the closure removes every style element of the head.
rollback_ClearsStyles(ts, h, t) == [head |-> <<>>, threw |-> FALSE]

\* The closure appendExtraStyles returns, invoked on head h.
rollback(ts, h, t) == RemoveAll(h, extraStyles(ts, t), 1)

\* Faulty variant: the fetched body is not installed.
replaceBody_KeepsBody(t) == docBody

\* replaceBody(targetDocument = document): document.body afterwards.
replaceBody(t) == t

\* ------------------------------------------------------------ the handlers

Op(name, t, r, c, u) ==
    [op |-> name, task |-> t, res |-> r, closure |-> c, url |-> u]

\* What a listener finds when an event on e is dispatched: the document, the
\* prefetch result e carries and the hover prefetches in flight for e.
Snapshot(e) ==
    [body |-> docBody, head |-> head, history |-> history,
     cleanup |-> currentCleanUp, ops |-> Len(opLog),
     methods |-> hasExtraMethods[e],
     pending |-> {h \in 1 .. Len(tasks) : /\ tasks[h].kind = "mouseover"
                                          /\ tasks[h].target = e
                                          /\ tasks[h].pc = "fetch"}]

\* A listener invocation suspended at its await of getClienPageAheadOfTime.
NewTask(kind, e) ==
    [kind |-> kind, target |-> e, pc |-> "fetch", fetched |-> TRUE,
     ok |-> FALSE, used |-> NoResult, before |-> Snapshot(e)]

\* What is kept of a dispatched event: event.defaultPrevented once its
\* listener has returned or suspended.
Event(prevented) == [defaultPrevented |-> prevented]

NoEvent == Event(FALSE)

\* Elements of the live document: only they receive user events that
\* bubble to the document's listeners.
InDocument(e) == e[1] = docBody

\* ------------------------------------------------ faulty variants (mutants)
\* Each is ApplyNavigation with one plausible slip; the properties below are
\* required to tell every one of them from the code.

\* The previous cleanup is never called.
ApplyNavigation_NoCleanUp(t, r, base) ==
    LET href == Href(base[t].target[2])
    IN  /\ tasks' = [base EXCEPT ![t].pc = "done", ![t].used = r]
        /\ head' = appendExtraStyles(base, head, r)
        /\ currentCleanUp' = [res |-> r, id |-> t]
        /\ docBody' = replaceBody(r)
        /\ history' = Append(history, href)
        /\ opLog' = opLog \o
               <<Op("appendExtraStyles", t, r, t, ""),
                 Op("replaceBody", t, r, 0, ""),
                 Op("pushState", t, 0, 0, href)>>

\* The new styles are appended before the previous cleanup is called.
ApplyNavigation_StylesFirst(t, r, base) ==
    LET stored == currentCleanUp
        appended == appendExtraStyles(base, head, r)
        rb == IF stored # NoCleanUp
              THEN rollback(base, appended, stored.res)
              ELSE [head |-> appended, threw |-> FALSE]
        cleanupOps == IF stored # NoCleanUp
                      THEN <<Op("cleanup", t, stored.res, stored.id, "")>>
                      ELSE <<>>
        href == Href(base[t].target[2])
    IN  /\ tasks' = [base EXCEPT ![t].pc = "done", ![t].used = r]
        /\ head' = rb.head
        /\ currentCleanUp' = [res |-> r, id |-> t]
        /\ docBody' = replaceBody(r)
        /\ history' = Append(history, href)
        /\ opLog' = opLog \o <<Op("appendExtraStyles", t, r, t, "")>> \o
               cleanupOps \o
               <<Op("replaceBody", t, r, 0, ""),
                 Op("pushState", t, 0, 0, href)>>

\* Faulty variant: the handler stops after the style insertion, so the body
\* replacement and the history push are not part of the segment.
ApplyNavigation_StylesOnly(t, r, base) ==
    LET stored == currentCleanUp
        rb == IF stored # NoCleanUp
              THEN rollback(base, head, stored.res)
              ELSE [head |-> head, threw |-> FALSE]
        cleanupOps == IF stored # NoCleanUp
                      THEN <<Op("cleanup", t, stored.res, stored.id, "")>>
                      ELSE <<>>
    IN  /\ tasks' = [base EXCEPT ![t].pc = "done", ![t].used = r]
        /\ head' = appendExtraStyles(base, rb.head, r)
        /\ currentCleanUp' = [res |-> r, id |-> t]
        /\ opLog' = opLog \o cleanupOps \o
               <<Op("appendExtraStyles", t, r, t, "")>>
        /\ UNCHANGED <<docBody, history>>

\* history.replaceState is used in place of history.pushState.
ApplyNavigation_ReplaceState(t, r, base) ==
    LET stored == currentCleanUp
        rb == IF stored # NoCleanUp
              THEN rollback(base, head, stored.res)
              ELSE [head |-> head, threw |-> FALSE]
        cleanupOps == IF stored # NoCleanUp
                      THEN <<Op("cleanup", t, stored.res, stored.id, "")>>
                      ELSE <<>>
        href == Href(base[t].target[2])
    IN  /\ tasks' = [base EXCEPT ![t].pc = "done", ![t].used = r]
        /\ head' = appendExtraStyles(base, rb.head, r)
        /\ currentCleanUp' = [res |-> r, id |-> t]
        /\ docBody' = replaceBody(r)
        /\ history' = [history EXCEPT ![Len(history)] = href]
        /\ opLog' = opLog \o cleanupOps \o
               <<Op("appendExtraStyles", t, r, t, ""),
                 Op("replaceBody", t, r, 0, ""),
                 Op("replaceState", t, 0, 0, href)>>

\* ---------------------------------------------------- the click navigation

\* The click listener from the cleanup call to history.pushState, run by
\* task t with the prefetch result r.  base is the task list with t's record
\* as the segment found it.
ApplyNavigation(t, r, base) ==
    LET stored == currentCleanUp
        rb == IF stored # NoCleanUp
              THEN rollback(base, head, stored.res)
              ELSE [head |-> head, threw |-> FALSE]
        cleanupOps == IF stored # NoCleanUp
                      THEN <<Op("cleanup", t, stored.res, stored.id, "")>>
                      ELSE <<>>
        href == Href(base[t].target[2])
    IN  IF rb.threw
        THEN /\ tasks' = [base EXCEPT ![t].pc = "rejected"]
             /\ head' = rb.head
             /\ opLog' = opLog \o cleanupOps
             /\ UNCHANGED <<currentCleanUp, docBody, history>>
        ELSE /\ tasks' = [base EXCEPT ![t].pc = "done", ![t].used = r]
             /\ head' = appendExtraStyles(base, rb.head, r)
             /\ currentCleanUp' = [res |-> r, id |-> t]
             /\ docBody' = replaceBody(r)
             /\ history' = Append(history, href)
             /\ opLog' = opLog \o cleanupOps \o
                    <<Op("appendExtraStyles", t, r, t, ""),
                      Op("replaceBody", t, r, 0, ""),
                      Op("pushState", t, 0, 0, href)>>

\* Faulty variant: any marker value opts the anchor in.
Click_AnyMarker(e) ==
    /\ InDocument(e)
    /\ LET t == Len(tasks) + 1
           tpl == e[2]
           new == NewTask("click", e)
       IN  IF ~IsAnchor(tpl) \/ Marker(tpl) = ""
           THEN /\ lastEvent' = Event(FALSE)
                /\ UNCHANGED <<tasks, hasExtraMethods, currentCleanUp, head,
                               docBody, history, opLog, settled>>
           ELSE /\ Len(tasks) < MaxTasks
                /\ lastEvent' = Event(TRUE)
                /\ IF hasExtraMethods[e] # NoResult
                   THEN /\ ApplyNavigation(t, hasExtraMethods[e],
                               Append(tasks, [new EXCEPT !.fetched = FALSE]))
                        /\ UNCHANGED <<hasExtraMethods, settled>>
                   ELSE /\ tasks' = Append(tasks, new)
                        /\ UNCHANGED <<hasExtraMethods, currentCleanUp, head,
                                       docBody, history, opLog, settled>>

\* Faulty variant: the prefetch result the anchor carries is not reused.
Click_AlwaysFetches(e) ==
    /\ InDocument(e)
    /\ LET tpl == e[2]
       IN  IF ~IsAnchor(tpl) \/ (Marker(tpl) # "click" /\ Marker(tpl) # "hover")
           THEN /\ lastEvent' = Event(FALSE)
                /\ UNCHANGED tasks
           ELSE /\ Len(tasks) < MaxTasks
                /\ lastEvent' = Event(TRUE)
                /\ tasks' = Append(tasks, NewTask("click", e))
    /\ UNCHANGED <<hasExtraMethods, currentCleanUp, head, docBody, history,
                   opLog, settled>>

\* The click listener up to its first await, or to its end when the target
\* already carries a prefetch result.
\* Faulty variant: the methods are awaited in both branches, so a click on an
\* augmented anchor suspends before it applies its navigation.
Click_AwaitsCached(e) ==
    /\ InDocument(e)
    /\ LET tpl == e[2]
           new == NewTask("click", e)
       IN  IF ~IsAnchor(tpl) \/ (Marker(tpl) # "click" /\ Marker(tpl) # "hover")
           THEN /\ lastEvent' = Event(FALSE)
                /\ UNCHANGED tasks
           ELSE /\ Len(tasks) < MaxTasks
                /\ lastEvent' = Event(TRUE)
                /\ tasks' = Append(tasks,
                       [new EXCEPT !.fetched = hasExtraMethods[e] = NoResult])
    /\ UNCHANGED <<hasExtraMethods, currentCleanUp, head, docBody, history,
                   opLog, settled>>

\* Faulty variant: preventDefault is called after the await, so a click
\* that has to fetch ends its dispatch without being prevented.
Click_PreventsAfterAwait(e) ==
    /\ InDocument(e)
    /\ LET t == Len(tasks) + 1
           tpl == e[2]
           new == NewTask("click", e)
       IN  IF ~IsAnchor(tpl) \/ (Marker(tpl) # "click" /\ Marker(tpl) # "hover")
           THEN /\ lastEvent' = Event(FALSE)
                /\ UNCHANGED <<tasks, hasExtraMethods, currentCleanUp, head,
                               docBody, history, opLog, settled>>
           ELSE /\ Len(tasks) < MaxTasks
                /\ lastEvent' = Event(hasExtraMethods[e] # NoResult)
                /\ IF hasExtraMethods[e] # NoResult
                   THEN /\ ApplyNavigation(t, hasExtraMethods[e],
                               Append(tasks, [new EXCEPT !.fetched = FALSE]))
                        /\ UNCHANGED <<hasExtraMethods, settled>>
                   ELSE /\ tasks' = Append(tasks, new)
                        /\ UNCHANGED <<hasExtraMethods, currentCleanUp, head,
                                       docBody, history, opLog, settled>>

Click(e) ==
    /\ InDocument(e)
    /\ LET t == Len(tasks) + 1
           tpl == e[2]
           new == NewTask("click", e)
       IN  IF ~IsAnchor(tpl) \/ (Marker(tpl) # "click" /\ Marker(tpl) # "hover")
           THEN /\ lastEvent' = Event(FALSE)
                /\ UNCHANGED <<tasks, hasExtraMethods, currentCleanUp, head,
                               docBody, history, opLog, settled>>
           ELSE /\ Len(tasks) < MaxTasks
                /\ lastEvent' = Event(TRUE)
                /\ IF hasExtraMethods[e] # NoResult
                   THEN /\ ApplyNavigation(t, hasExtraMethods[e],
                               Append(tasks, [new EXCEPT !.fetched = FALSE]))
                        /\ UNCHANGED <<hasExtraMethods, settled>>
                   ELSE /\ tasks' = Append(tasks, new)
                        /\ UNCHANGED <<hasExtraMethods, currentCleanUp, head,
                                       docBody, history, opLog, settled>>

\* The mouseover listener up to its await.
MouseOver(e) ==
    /\ InDocument(e)
    /\ lastEvent' = Event(FALSE)
    /\ LET tpl == e[2]
       IN  IF \/ ~IsAnchor(tpl)
              \/ hasExtraMethods[e] # NoResult
              \/ Marker(tpl) # "hover"
           THEN UNCHANGED tasks
           ELSE /\ Len(tasks) < MaxTasks
                /\ tasks' = Append(tasks, NewTask("mouseover", e))
    /\ UNCHANGED <<hasExtraMethods, currentCleanUp, head, docBody, history,
                   opLog, settled>>

\* Faulty variant: history.pushState runs before the await, so a click whose
\* fetch fails has already pushed its URL.
PrefetchRejects_Pushed(t) ==
    /\ t \in 1 .. Len(tasks)
    /\ tasks[t].pc = "fetch"
    /\ tasks' = [tasks EXCEPT ![t].pc = "rejected"]
    /\ IF tasks[t].kind = "click"
       THEN /\ history' = Append(history, Href(tasks[t].target[2]))
            /\ opLog' = opLog \o
                   <<Op("pushState", t, 0, 0, Href(tasks[t].target[2]))>>
       ELSE UNCHANGED <<history, opLog>>
    /\ UNCHANGED <<lastEvent, hasExtraMethods, currentCleanUp, head, docBody,
                   settled>>

\* await fetch(url) or await response.text() rejects: the rejection leaves
\* getClienPageAheadOfTime and then the listener, which catches nothing, so
\* the listener's promise rejects with no handler attached.
PrefetchRejects(t) ==
    /\ t \in 1 .. Len(tasks)
    /\ tasks[t].pc = "fetch"
    /\ tasks' = [tasks EXCEPT ![t].pc = "rejected"]
    /\ UNCHANGED <<lastEvent, hasExtraMethods, currentCleanUp, head, docBody,
                   history, opLog, settled>>

\* Faulty variant: only the most recent click is applied; a click superseded
\* by a later one drops its result.
ClickResume_LatestWins(t, ts) ==
    IF \A c \in 1 .. Len(ts) : ts[c].kind = "click" => c <= t
    THEN /\ ApplyNavigation(t, t, ts)
         /\ UNCHANGED hasExtraMethods
    ELSE /\ tasks' = [ts EXCEPT ![t].pc = "done"]
         /\ UNCHANGED <<hasExtraMethods, currentCleanUp, head, docBody,
                        history, opLog>>

\* Faulty variant: a click on an anchor whose hover prefetch is still in
\* flight leaves the navigation to that prefetch.
ClickResume_DefersToHover(t, ts) ==
    IF \E h \in 1 .. Len(ts) : /\ ts[h].kind = "mouseover"
                                /\ ts[h].target = ts[t].target
                                /\ ts[h].pc = "fetch"
    THEN /\ tasks' = [ts EXCEPT ![t].pc = "done"]
         /\ UNCHANGED <<hasExtraMethods, currentCleanUp, head, docBody,
                        history, opLog>>
    ELSE /\ ApplyNavigation(t, t, ts)
         /\ UNCHANGED hasExtraMethods

\* The click listener after its await: the prefetch of task t fulfilled.
\* ts is the task list with the response recorded.
ClickResume(t, ts) ==
    /\ ApplyNavigation(t, t, ts)
    /\ UNCHANGED hasExtraMethods

\* Faulty variant: the hover handler applies the page it prefetched.
MouseOverResume_Applies(t, ts) ==
    /\ hasExtraMethods' = [hasExtraMethods EXCEPT ![ts[t].target] = t]
    /\ ApplyNavigation(t, t, ts)

\* The mouseover listener after its await: Object.assign(target, methods).
MouseOverResume(t, ts) ==
    /\ hasExtraMethods' = [hasExtraMethods EXCEPT ![ts[t].target] = t]
    /\ tasks' = [ts EXCEPT ![t].pc = "done"]
    /\ UNCHANGED <<currentCleanUp, head, docBody, history, opLog>>

\* await fetch(url) fulfils with a response of either status (response.ok is
\* never read) and await response.text() fulfils: the HTML is parsed,
\* getClienPageAheadOfTime returns its methods and the awaiting listener
\* continues in the same microtask checkpoint.  The function keeps nothing
\* but locals between its two awaits, so they are one suspension here.
PrefetchFulfils(t, ok) ==
    /\ t \in 1 .. Len(tasks)
    /\ tasks[t].pc = "fetch"
    /\ settled' = Append(settled, t)
    /\ UNCHANGED lastEvent
    /\ LET ts == [tasks EXCEPT ![t].ok = ok]
       IN  IF tasks[t].kind = "click"
           THEN ClickResume(t, ts)
           ELSE MouseOverResume(t, ts)

\* No observer exists (the modules that create one are not loaded).
NoObserver ==
    /\ state = FALSE
    /\ subscribers = <<>>
    /\ calls = <<>>
    /\ raised = FALSE
    /\ windowListeners = {}

\* No script has been added and setupMermaid is not part of the run.
NoMermaid == [pc |-> "none"]
NoScripts ==
    /\ scripts = <<>>
    /\ requested = <<>>
    /\ mermaid = NoMermaid

\* No prefetch result is exercised outside the listeners.
NoTrial == [phase |-> "none"]

\* The state after initializeClientSideNavigation() with the flag enabled.
Init ==
    /\ clientNavigation = TRUE
    /\ installed = "document"
    /\ dispatched = <<>>
    /\ trial = NoTrial
    /\ NoObserver
    /\ NoScripts
    /\ lastEvent = NoEvent
    /\ tasks = <<>>
    /\ hasExtraMethods = [e \in Elems |-> NoResult]
    /\ currentCleanUp = NoCleanUp
    /\ head = InitialHead
    /\ docBody = 0
    /\ history = <<InitialUrl>>
    /\ opLog = <<>>
    /\ settled = <<>>

\* A step of the navigation controller touches nothing else.
NavigationOnly == UNCHANGED <<flagVars, trial, observerVars, scriptVars>>

Next ==
    \/ \E e \in {docBody} \X Templates : Click(e) /\ NavigationOnly
    \/ \E e \in {docBody} \X Templates : MouseOver(e) /\ NavigationOnly
    \/ \E t \in 1 .. MaxTasks : PrefetchRejects(t) /\ NavigationOnly
    \/ \E t \in 1 .. MaxTasks, ok \in BOOLEAN :
          PrefetchFulfils(t, ok) /\ NavigationOnly

Spec == Init /\ [][Next]_vars

\* ------------------------------------------------------- the feature flag
\* initializeClientSideNavigation with either value of the flag, followed by
\* user events and fetch outcomes.

InitFlag ==
    /\ clientNavigation \in BOOLEAN
    /\ installed = "notInitialized"
    /\ dispatched = <<>>
    /\ trial = NoTrial
    /\ NoObserver
    /\ NoScripts
    /\ lastEvent = NoEvent
    /\ tasks = <<>>
    /\ hasExtraMethods = [e \in Elems |-> NoResult]
    /\ currentCleanUp = NoCleanUp
    /\ head = InitialHead
    /\ docBody = 0
    /\ history = <<InitialUrl>>
    /\ opLog = <<>>
    /\ settled = <<>>

\* Faulty variant: the flag is not consulted.
initializeClientSideNavigation_IgnoresFlag ==
    /\ installed = "notInitialized"
    /\ installed' = "document"
    /\ UNCHANGED <<navVars, clientNavigation, dispatched, trial, observerVars,
                   scriptVars>>

\* if (clientNavigation) appendListeners()
initializeClientSideNavigation ==
    /\ installed = "notInitialized"
    /\ installed' = IF clientNavigation THEN "document" ELSE "nothing"
    /\ UNCHANGED <<navVars, clientNavigation, dispatched, trial, observerVars,
                   scriptVars>>

\* An event on e with no listener attached: no handler runs, the event ends
\* not default-prevented and the browser's default action is left to it.
Unhandled(e, type) ==
    /\ InDocument(e)
    /\ Len(dispatched) < MaxEvents
    /\ dispatched' = Append(dispatched, type)
    /\ lastEvent' = Event(FALSE)
    /\ UNCHANGED <<tasks, hasExtraMethods, currentCleanUp, head, docBody,
                   history, opLog, settled>>

\* Faulty variant: the listeners are on the body element of the page as
\* first loaded, which a body replacement detaches from the document.
ClickEvent_OriginalBody(e) ==
    /\ installed # "notInitialized"
    /\ IF installed = "document" /\ docBody = 0
       THEN Click(e) /\ UNCHANGED dispatched
       ELSE Unhandled(e, "click")
    /\ UNCHANGED <<clientNavigation, installed, trial, observerVars, scriptVars>>

\* A click, or a mouseover, on e once initializeClientSideNavigation ran.
ClickEvent(e) ==
    /\ installed # "notInitialized"
    /\ IF installed = "document"
       THEN Click(e) /\ UNCHANGED dispatched
       ELSE Unhandled(e, "click")
    /\ UNCHANGED <<clientNavigation, installed, trial, observerVars, scriptVars>>

MouseOverEvent(e) ==
    /\ installed # "notInitialized"
    /\ IF installed = "document"
       THEN MouseOver(e) /\ UNCHANGED dispatched
       ELSE Unhandled(e, "mouseover")
    /\ UNCHANGED <<clientNavigation, installed, trial, observerVars, scriptVars>>

NextFlag ==
    \/ initializeClientSideNavigation
    \/ \E e \in {docBody} \X Templates : ClickEvent(e)
    \/ \E e \in {docBody} \X Templates : MouseOverEvent(e)
    \/ \E t \in 1 .. MaxTasks : PrefetchRejects(t) /\ NavigationOnly
    \/ \E t \in 1 .. MaxTasks, ok \in BOOLEAN :
          PrefetchFulfils(t, ok) /\ NavigationOnly

SpecFlag == InitFlag /\ [][NextFlag]_vars

\* ------------------------------------- listeners on the body element
\* shared.ts (first version) attaches the same two listeners to the body
\* element the document had when the script ran.  installed is "body" for
\* it and "document" for appendListeners.

InitVariants ==
    /\ clientNavigation = TRUE
    /\ installed \in {"document", "body"}
    /\ dispatched = <<>>
    /\ trial = NoTrial
    /\ NoObserver
    /\ NoScripts
    /\ lastEvent = NoEvent
    /\ tasks = <<>>
    /\ hasExtraMethods = [e \in Elems |-> NoResult]
    /\ currentCleanUp = NoCleanUp
    /\ head = InitialHead
    /\ docBody = 0
    /\ history = <<InitialUrl>>
    /\ opLog = <<>>
    /\ settled = <<>>

\* The event on e bubbles to the listeners: to the document from every
\* element, to the body element captured at start from its descendants.
Bubbles(e) == installed = "document" \/ e[1] = 0

\* A click, or a mouseover, on e under either variant.
VariantClick(e) ==
    /\ IF Bubbles(e)
       THEN Click(e) /\ UNCHANGED dispatched
       ELSE Unhandled(e, "click")
    /\ UNCHANGED <<clientNavigation, installed, trial, observerVars, scriptVars>>

VariantMouseOver(e) ==
    /\ IF Bubbles(e)
       THEN MouseOver(e) /\ UNCHANGED dispatched
       ELSE Unhandled(e, "mouseover")
    /\ UNCHANGED <<clientNavigation, installed, trial, observerVars, scriptVars>>

NextVariants ==
    \/ \E e \in {docBody} \X Templates : VariantClick(e)
    \/ \E e \in {docBody} \X Templates : VariantMouseOver(e)
    \/ \E t \in 1 .. MaxTasks : PrefetchRejects(t) /\ NavigationOnly
    \/ \E t \in 1 .. MaxTasks, ok \in BOOLEAN :
          PrefetchFulfils(t, ok) /\ NavigationOnly

SpecVariants == InitVariants /\ [][NextVariants]_vars

\* --------------------------------------------- a prefetch result on its own
\* The methods getClienPageAheadOfTime returns, exercised directly: the
\* result of one prefetch (task 1) is applied to a head of any content, its
\* closure is invoked, invoked again, and the result is applied again.

\* Style elements a head may hold that the result did not bring: the page's
\* own and those of another prefetch result.
HeadNodes == {<<0, k>> : k \in 1 .. MaxHead} \cup {<<2, 1>>}

\* The heads of at most MaxHead of these elements, each at most once.
RECURSIVE Heads(_)
Heads(n) ==
    IF n = 0 THEN {<<>>}
    ELSE LET shorter == Heads(n - 1)
         IN  shorter \cup {Append(h, x) : h \in shorter, x \in HeadNodes}

DistinctHeads ==
    {h \in Heads(MaxHead) : \A i, j \in 1 .. Len(h) : h[i] = h[j] => i = j}

\* The result of a prefetch of e's href that fulfilled with status ok.
Fetched(e, ok) ==
    [kind |-> "click", target |-> e, pc |-> "fetch", fetched |-> TRUE,
     ok |-> ok, used |-> NoResult, before |-> NoResult]

InitStyles ==
    /\ clientNavigation = FALSE
    /\ installed = "nothing"
    /\ dispatched = <<>>
    /\ NoObserver
    /\ NoScripts
    /\ lastEvent = NoEvent
    /\ \E tpl \in {"aClick", "aHover"}, ok \in BOOLEAN :
          tasks = <<Fetched(<<0, tpl>>, ok)>>
    /\ hasExtraMethods = [e \in Elems |-> NoResult]
    /\ currentCleanUp = NoCleanUp
    /\ head \in DistinctHeads
    /\ docBody = 0
    /\ history = <<InitialUrl>>
    /\ opLog = <<>>
    /\ settled = <<1>>
    /\ trial = [phase |-> "fresh", before |-> <<>>, afterFirst |-> <<>>,
                threw |-> FALSE, rounds |-> 0]

\* Faulty variant: the closure forgets the first of the style elements.
InvokeRollback_LeavesFirst ==
    /\ trial.phase = "applied"
    /\ LET styles == extraStyles(tasks, 1)
           rb == RemoveAll(head, styles, 2)
       IN  /\ head' = rb.head
           /\ trial' = [trial EXCEPT !.phase = "rolledBack",
                                     !.afterFirst = rb.head,
                                     !.threw = rb.threw]

\* appendExtraStyles(): the styles are appended and a closure is returned.
AppendStyles ==
    /\ trial.phase \in {"fresh", "rolledBack", "again"}
    /\ trial.rounds < MaxRounds
    /\ head' = appendExtraStyles(tasks, head, 1)
    /\ trial' = [phase |-> "applied", before |-> head, afterFirst |-> <<>>,
                 threw |-> FALSE, rounds |-> trial.rounds + 1]

\* The closure returned last is invoked for the first time.
InvokeRollback ==
    /\ trial.phase = "applied"
    /\ LET rb == rollback(tasks, head, 1)
       IN  /\ head' = rb.head
           /\ trial' = [trial EXCEPT !.phase = "rolledBack",
                                     !.afterFirst = rb.head,
                                     !.threw = rb.threw]

\* The same closure is invoked a second time.
InvokeRollbackAgain ==
    /\ trial.phase = "rolledBack"
    /\ LET rb == rollback(tasks, head, 1)
       IN  /\ head' = rb.head
           /\ trial' = [trial EXCEPT !.phase = "again", !.threw = rb.threw]

\* A step of this section changes the head and nothing else of the page.
StylesOnly ==
    UNCHANGED <<lastEvent, tasks, hasExtraMethods, currentCleanUp, docBody,
                history, opLog, settled, flagVars, observerVars, scriptVars>>

NextStyles ==
    \/ AppendStyles /\ StylesOnly
    \/ InvokeRollback /\ StylesOnly
    \/ InvokeRollbackAgain /\ StylesOnly

SpecStyles == InitStyles /\ [][NextStyles]_vars

\* --------------------------------------------------------- StatefulObserver
\* An observer is the record of its fields together with the log of the
\* subscriber invocations made so far and whether the operation in progress
\* has raised.  A callback is <<kind, id, behaviour>>: a "recorder" only
\* receives its argument; a "wrapper" is the arrow function onFirstInteraction
\* subscribes, around a user callback that returns or throws.

Obs == [state |-> state, subscribers |-> subscribers, calls |-> calls,
        raised |-> FALSE]

Become(o) ==
    /\ state' = o.state
    /\ subscribers' = o.subscribers
    /\ calls' = o.calls
    /\ raised' = o.raised

\* Faulty variant: the subscribers are kept in an array that is pushed to.
SetAdd_Appends(set, x) == Append(set, x)

\* Set.prototype.add and Set.prototype.delete on a set kept in insertion
\* order.
SetAdd(set, x) == IF x \in Range(set) THEN set ELSE Append(set, x)
SetDelete(set, x) == SelectSeq(set, LAMBDA y : y # x)

\* Faulty variant: a callback that is not subscribed is looked up, not
\* found, and the subscriber added last is removed in its place.
unsubscribe_RemovesLast(o, cb) ==
    IF cb \in Range(o.subscribers) \/ o.subscribers = <<>>
    THEN [o EXCEPT !.subscribers = SetDelete(@, cb)]
    ELSE [o EXCEPT !.subscribers = SubSeq(@, 1, Len(@) - 1)]

\* unsubscribe(callback)
unsubscribe(o, cb) == [o EXCEPT !.subscribers = SetDelete(@, cb)]

\* The user callback of wrapper w is called: callback().
callback(o, w, hasInteracted, by) ==
    [o EXCEPT !.calls = Append(@, [cb |-> <<"callback", w[2], w[3]>>,
                                   arg |-> hasInteracted, by |-> by,
                                   held |-> o.state])]

\* Faulty variant: the wrapper does not test hasInteracted.
wrapper_IgnoresFlag(o, w, hasInteracted, by) ==
    LET fired == callback(o, w, hasInteracted, by)
    IN  IF w[3] = "throws" THEN [fired EXCEPT !.raised = TRUE]
        ELSE IF by = "subscribe" THEN [fired EXCEPT !.raised = TRUE]
        ELSE unsubscribe(fired, w)

\* Faulty variant: the wrapper does nothing while subscribe is replaying,
\* so a callback registered after the interaction waits for an event.
wrapper_SkipsReplay(o, w, hasInteracted, by) ==
    IF ~hasInteracted \/ by = "subscribe" THEN o
    ELSE LET fired == callback(o, w, hasInteracted, by)
         IN  IF w[3] = "throws" THEN [fired EXCEPT !.raised = TRUE]
             ELSE unsubscribe(fired, w)

\* The wrapper of onFirstInteraction, called with hasInteracted.  While
\* subscribe is replaying (by = "subscribe") the const unsubscribe the wrapper
\* refers to is not initialized yet, and calling it raises.
wrapper(o, w, hasInteracted, by) ==
    IF ~hasInteracted THEN o
    ELSE LET fired == callback(o, w, hasInteracted, by)
         IN  IF w[3] = "throws" THEN [fired EXCEPT !.raised = TRUE]
             ELSE IF by = "subscribe" THEN [fired EXCEPT !.raised = TRUE]
             ELSE unsubscribe(fired, w)

RECURSIVE forEach(_, _, _), invoke(_, _, _, _), notify(_, _)

\* callback(v): the call is logged with the value passed and with what
\* getState() returns when it is made.  A recorder only records; a
\* renotifier <<"renotifier", id, w>> calls notify(w) when it is passed
\* another value than w; the others are wrappers of onFirstInteraction.
invoke(o, cb, v, by) ==
    LET called == [o EXCEPT !.calls =
                       Append(@, [cb |-> cb, arg |-> v, by |-> by,
                                  held |-> o.state])]
    IN  IF cb[1] = "recorder" THEN called
        ELSE IF cb[1] = "renotifier"
             THEN IF v # cb[3] THEN notify(called, cb[3]) ELSE called
        ELSE wrapper(called, cb, v, by)

\* Faulty variant of the loop: callback => callback(newState), the value
\* notify was called with and not the state read at each invocation.
RECURSIVE forEachWith(_, _, _, _)
forEachWith(o, order, i, v) ==
    IF i > Len(order) \/ o.raised THEN o
    ELSE IF order[i] \notin Range(o.subscribers)
         THEN forEachWith(o, order, i + 1, v)
    ELSE forEachWith(invoke(o, order[i], v, "notify"), order, i + 1, v)

\* this.subscribers.forEach(callback => callback(this.state)), from the i-th
\* of the subscribers the iteration started with: an entry deleted before
\* its turn is skipped, and an error raised by a callback ends the loop.
forEach(o, order, i) ==
    IF i > Len(order) \/ o.raised THEN o
    ELSE IF order[i] \notin Range(o.subscribers) THEN forEach(o, order, i + 1)
    ELSE forEach(invoke(o, order[i], o.state, "notify"), order, i + 1)

\* Faulty variant: the test for an unchanged value is missing.
notify_AlwaysNotifies(o, newState) ==
    forEach([o EXCEPT !.state = newState], o.subscribers, 1)

\* Faulty variant: the subscribers are passed the argument of notify.
notify_PassesArgument(o, newState) ==
    IF newState = o.state THEN o
    ELSE forEachWith([o EXCEPT !.state = newState], o.subscribers, 1, newState)

\* notify(newState)
notify(o, newState) ==
    IF newState = o.state THEN o
    ELSE forEach([o EXCEPT !.state = newState], o.subscribers, 1)

\* Faulty variant: the new subscriber is not told the current state.
subscribe_NoReplay(o, cb) == [o EXCEPT !.subscribers = SetAdd(@, cb)]

\* subscribe(callback), up to its return (or to the error leaving it)
subscribe(o, cb) ==
    invoke([o EXCEPT !.subscribers = SetAdd(@, cb)], cb, o.state, "subscribe")

\* ---- an observer of two values used by two recording callbacks

Values == {"a", "b"}
Callbacks == {<<"recorder", 1, "returns">>, <<"recorder", 2, "returns">>}

\* A step of the observer modules leaves the navigation controller alone.
ObserverOnly ==
    UNCHANGED <<navVars, clientNavigation, installed, trial, scriptVars>>

InitObserver ==
    /\ clientNavigation = FALSE
    /\ installed = "nothing"
    /\ dispatched = <<>>
    /\ trial = NoTrial
    /\ lastEvent = NoEvent
    /\ tasks = <<>>
    /\ hasExtraMethods = [e \in Elems |-> NoResult]
    /\ currentCleanUp = NoCleanUp
    /\ head = InitialHead
    /\ docBody = 0
    /\ history = <<InitialUrl>>
    /\ opLog = <<>>
    /\ settled = <<>>
    /\ state \in Values
    /\ subscribers = <<>>
    /\ calls = <<>>
    /\ raised = FALSE
    /\ windowListeners = {}
    /\ NoScripts

Subscribe(cb) ==
    /\ Len(calls) < MaxCalls
    /\ Become(subscribe(Obs, cb))
    /\ UNCHANGED <<windowListeners, dispatched>>

Unsubscribe(cb) ==
    /\ Become(unsubscribe(Obs, cb))
    /\ UNCHANGED <<windowListeners, dispatched>>

\* The function subscribe(cb) returned, () => this.unsubscribe(callback),
\* is called: it exists once cb has been subscribed.
Dispose(cb) ==
    /\ \E i \in 1 .. Len(calls) : calls[i].cb = cb /\ calls[i].by = "subscribe"
    /\ Become(unsubscribe(Obs, cb))
    /\ UNCHANGED <<windowListeners, dispatched>>

Notify(v) ==
    /\ Len(calls) + Len(subscribers) <= MaxCalls
    /\ Become(notify(Obs, v))
    /\ UNCHANGED <<windowListeners, dispatched>>

NextObserver ==
    \/ \E cb \in Callbacks : Subscribe(cb) /\ ObserverOnly
    \/ \E cb \in Callbacks : Unsubscribe(cb) /\ ObserverOnly
    \/ \E cb \in Callbacks : Dispose(cb) /\ ObserverOnly
    \/ \E v \in Values : Notify(v) /\ ObserverOnly

SpecObserver == InitObserver /\ [][NextObserver]_vars

\* ---- the same observer with a subscriber that calls notify when notified
ReentrantCallbacks == {<<"recorder", 1, "returns">>, <<"renotifier", 2, "a">>}

NextReentrant ==
    \/ \E cb \in ReentrantCallbacks : Subscribe(cb) /\ ObserverOnly
    \/ \E cb \in ReentrantCallbacks : Unsubscribe(cb) /\ ObserverOnly
    \/ \E v \in Values : Notify(v) /\ ObserverOnly

SpecReentrant == InitObserver /\ [][NextReentrant]_vars

\* -------------------------------------------------------- first-interaction
\* interactionObserver is a StatefulObserver<boolean>; trigger is attached to
\* the window for each of the five events when the module is evaluated.

\* Faulty variant: the list of events names the click only.
events_ClickOnly == {"click"}

events == {"click", "scroll", "keydown", "mousemove", "touchstart"}

\* The events the window receives: those above and one of another type.
WindowEvents == {"click", "scroll", "keydown", "mousemove", "touchstart",
                 "resize"}

\* The state after the module's evaluation.
InitInteraction ==
    /\ clientNavigation = FALSE
    /\ installed = "nothing"
    /\ dispatched = <<>>
    /\ trial = NoTrial
    /\ lastEvent = NoEvent
    /\ tasks = <<>>
    /\ hasExtraMethods = [e \in Elems |-> NoResult]
    /\ currentCleanUp = NoCleanUp
    /\ head = InitialHead
    /\ docBody = 0
    /\ history = <<InitialUrl>>
    /\ opLog = <<>>
    /\ settled = <<>>
    /\ state = FALSE
    /\ subscribers = <<>>
    /\ calls = <<>>
    /\ raised = FALSE
    /\ windowListeners = IF state = FALSE THEN events ELSE {}
    /\ NoScripts

\* trigger: an error raised under notify leaves trigger before it has
\* removed the listeners.
trigger ==
    LET o == notify(Obs, TRUE)
    IN  /\ Become(o)
        /\ windowListeners' = IF o.raised THEN windowListeners ELSE {}

\* An event of the given type reaches the window.
WindowEvent(type) ==
    /\ Len(dispatched) < MaxEvents
    /\ dispatched' = Append(dispatched, type)
    /\ IF type \in windowListeners
       THEN trigger
       ELSE UNCHANGED observerVars

\* The registrations made so far: every subscribe call replayed once.
Registrations ==
    {i \in 1 .. Len(calls) : calls[i].by = "subscribe" /\ calls[i].cb[1] = "wrapper"}

\* onFirstInteraction(callback), for a callback that returns or throws.
onFirstInteraction(behaviour) ==
    /\ Cardinality(Registrations) < MaxRegs
    /\ Become(subscribe(Obs, <<"wrapper", Cardinality(Registrations) + 1,
                               behaviour>>))
    /\ UNCHANGED <<windowListeners, dispatched>>

NextInteraction ==
    \/ \E type \in WindowEvents : WindowEvent(type) /\ ObserverOnly
    \/ \E behaviour \in {"returns", "throws"} :
          onFirstInteraction(behaviour) /\ ObserverOnly

SpecInteraction == InitInteraction /\ [][NextInteraction]_vars

\* ------------------------------------------- addScriptToHead, setupMermaid
\* A script element is kept with the promise addScriptToHead returned for it
\* (outcome) and the load and error events it has received.

MermaidSrc == "https://cdn.jsdelivr.net/npm/mermaid@10/dist/mermaid.min.js"
Sources == {"a.js"}

NewScript(src) == [src |-> src, outcome |-> "pending", events |-> <<>>]

\* Faulty variant: a source that was added before is not added again.
addScriptToHead_Dedups(ss, src) ==
    IF \E i \in 1 .. Len(ss) : ss[i].src = src THEN ss
    ELSE Append(ss, NewScript(src))

\* addScriptToHead(attributes): document.head's scripts afterwards.
addScriptToHead(ss, src) == Append(ss, NewScript(src))

\* Faulty variant: every event sets the outcome anew.
settle_LastWins(outcome, type) ==
    IF type = "load" THEN "resolved" ELSE "rejected"

\* script.onload = () => resolve(), script.onerror = () => reject(...):
\* resolve and reject of a promise that is settled do nothing.
settle(outcome, type) ==
    IF outcome # "pending" THEN outcome
    ELSE IF type = "load" THEN "resolved" ELSE "rejected"

\* Faulty variant: the await is not inside a try.
resume_NoCatch(m, outcome) ==
    IF outcome = "resolved" THEN [m EXCEPT !.pc = "loaded"]
    ELSE [m EXCEPT !.pc = "rejected", !.unhandled = @ + 1]

\* The callback of setupMermaid after its await: the catch logs the error.
resume(m, outcome) ==
    IF outcome = "resolved" THEN [m EXCEPT !.pc = "loaded"]
    ELSE [m EXCEPT !.pc = "logged", !.errors = @ + 1]

\* The step has called the user callback of a registration of this kind.
FiredNow(behaviour) ==
    \E i \in Len(calls) + 1 .. Len(calls') :
        calls'[i].cb[1] = "callback" /\ calls'[i].cb[3] = behaviour

\* The callback of setupMermaid up to its await: the elements get the class
\* and the script is added.
CallbackStart ==
    /\ requested' = Append(requested, MermaidSrc)
    /\ scripts' = addScriptToHead(scripts, MermaidSrc)
    /\ mermaid' = [mermaid EXCEPT !.classed = TRUE, !.pc = "loading",
                                  !.awaiting = Len(scripts')]

InitMermaid ==
    /\ clientNavigation = FALSE
    /\ installed = "nothing"
    /\ dispatched = <<>>
    /\ trial = NoTrial
    /\ lastEvent = NoEvent
    /\ tasks = <<>>
    /\ hasExtraMethods = [e \in Elems |-> NoResult]
    /\ currentCleanUp = NoCleanUp
    /\ head = InitialHead
    /\ docBody = 0
    /\ history = <<InitialUrl>>
    /\ opLog = <<>>
    /\ settled = <<>>
    /\ state = FALSE
    /\ subscribers = <<>>
    /\ calls = <<>>
    /\ raised = FALSE
    /\ windowListeners = IF state = FALSE THEN events ELSE {}
    /\ scripts = <<>>
    /\ requested = <<>>
    /\ \E n \in 0 .. MaxDiagrams :
          mermaid = [elements |-> n, classed |-> FALSE, pc |-> "notRun",
                     awaiting |-> 0, errors |-> 0, unhandled |-> 0]

\* Faulty variant: the library is loaded when setupMermaid runs.
setupMermaid_Eager ==
    /\ mermaid.pc = "notRun"
    /\ IF mermaid.elements = 0
       THEN /\ mermaid' = [mermaid EXCEPT !.pc = "returned"]
            /\ UNCHANGED <<scripts, requested>>
       ELSE CallbackStart
    /\ UNCHANGED <<observerVars, dispatched>>

\* setupMermaid()
setupMermaid ==
    /\ mermaid.pc = "notRun"
    /\ IF mermaid.elements = 0
       THEN /\ mermaid' = [mermaid EXCEPT !.pc = "returned"]
            /\ UNCHANGED <<observerVars, scripts, requested>>
       ELSE /\ Cardinality(Registrations) < MaxRegs
            /\ Become(subscribe(Obs, <<"wrapper", Cardinality(Registrations) + 1,
                                       "mermaid">>))
            /\ UNCHANGED windowListeners
            /\ IF FiredNow("mermaid")
               THEN CallbackStart
               ELSE /\ mermaid' = [mermaid EXCEPT !.pc = "subscribed"]
                    /\ UNCHANGED <<scripts, requested>>
    /\ UNCHANGED dispatched

\* A window event, with the callback of setupMermaid when it is fired.
MermaidEvent(type) ==
    /\ WindowEvent(type)
    /\ IF FiredNow("mermaid") THEN CallbackStart ELSE UNCHANGED scriptVars

\* onFirstInteraction called by another module. Its callback is one that
\* throws: one that returns leaves the callback of setupMermaid as it is
\* without it (see SpecInteraction for both).
Register(behaviour) ==
    /\ onFirstInteraction(behaviour)
    /\ UNCHANGED scriptVars

\* The load and error events the script elements have received.
RECURSIVE ScriptEvents(_)
ScriptEvents(n) ==
    IF n = 0 THEN 0 ELSE Len(scripts[n].events) + ScriptEvents(n - 1)

\* addScriptToHead called by another module.
AddScript(src) ==
    /\ Cardinality({i \in 1 .. Len(requested) : requested[i] # MermaidSrc})
          < MaxScripts
    /\ requested' = Append(requested, src)
    /\ scripts' = addScriptToHead(scripts, src)
    /\ UNCHANGED <<mermaid, observerVars, dispatched>>

\* The i-th script element receives a load or an error event; the callback
\* of setupMermaid continues when the promise it awaits settles.
ScriptEvent(i, type) ==
    /\ i \in 1 .. Len(scripts)
    /\ ScriptEvents(Len(scripts)) < MaxScriptEvents
    /\ LET outcome == settle(scripts[i].outcome, type)
       IN  /\ scripts' = [scripts EXCEPT ![i].outcome = outcome,
                                         ![i].events = Append(@, type)]
           /\ mermaid' = IF /\ mermaid.pc = "loading"
                            /\ mermaid.awaiting = i
                            /\ scripts[i].outcome = "pending"
                         THEN resume(mermaid, outcome)
                         ELSE mermaid
    /\ UNCHANGED <<requested, observerVars, dispatched>>

\* A step of this section leaves the navigation controller alone.
MermaidOnly == UNCHANGED <<navVars, clientNavigation, installed, trial>>

NextMermaid ==
    \/ setupMermaid /\ MermaidOnly
    \/ \E type \in {"scroll", "resize"} : MermaidEvent(type) /\ MermaidOnly
    \/ \E behaviour \in {"throws"} : Register(behaviour) /\ MermaidOnly
    \/ \E src \in Sources : AddScript(src) /\ MermaidOnly
    \/ \E i \in 1 .. MaxScripts + 1, type \in {"load", "error"} :
          ScriptEvent(i, type) /\ MermaidOnly

SpecMermaid == InitMermaid /\ [][NextMermaid]_vars

\* ---------------------------------------------------------------- helpers

TaskIds == 1 .. Len(tasks)
ClickTasks == {t \in TaskIds : tasks[t].kind = "click"}
HoverTasks == {t \in TaskIds : tasks[t].kind = "mouseover"}

\* Positions of the log holding operation name (performed by task t).
OpIdx(name) == {i \in 1 .. Len(opLog) : opLog[i].op = name}
OpsOf(name, t) == {i \in OpIdx(name) : opLog[i].task = t}

\* Position of t in settled (0 when its prefetch has not fulfilled).
SettledAt(t) ==
    IF t \in Range(settled)
    THEN CHOOSE i \in 1 .. Len(settled) : settled[i] = t
    ELSE 0

\* Style elements of the live head that the initial page did not bring.
Injected == {x \in Range(head) : x[1] # 0}

\* ----------------------------------------------------------------- claims

\* C1: in every reachable state the head styles inserted by
\* appendExtraStyles are exactly the style elements of one prefetch result,
\* and currentCleanUp is the rollback closure of that very result (no
\* inserted style when no closure is stored).
C1_SingleInjection ==
    Injected = IF currentCleanUp = NoCleanUp
               THEN {}
               ELSE Range(extraStyles(tasks, currentCleanUp.res))

\* Two overlapping clicks were applied in the reverse of their click order
\* and the styles in the head are those of the one applied last.
C1_Witness ==
    \E a, b \in ClickTasks :
        /\ a < b
        /\ tasks[a].pc = "done" /\ tasks[b].pc = "done"
        /\ tasks[a].fetched /\ tasks[b].fetched
        /\ tasks[b].before.ops = 0
        /\ SettledAt(b) < SettledAt(a)
        /\ currentCleanUp.res = a
        /\ Injected # {}
        /\ extraStyles(tasks, b) # <<>>

\* C2: whenever a navigation is applied while a closure of an earlier
\* navigation is stored, that closure is invoked exactly once in the whole
\* run, by the applying click, after it was stored and before the new
\* page's styles are inserted; the closure stored now is the one of the
\* navigation applied last and has not been invoked.
C2_PriorCleanupOnceBeforeStyles ==
    LET appends == OpIdx("appendExtraStyles")
        CallsOf(c) == {k \in OpIdx("cleanup") : opLog[k].closure = c}
        last == CHOOSE i \in appends : \A m \in appends : m <= i
    IN  /\ \A i, j \in appends :
              (j < i /\ \A m \in appends : ~(j < m /\ m < i)) =>
                  /\ Cardinality(CallsOf(opLog[j].closure)) = 1
                  /\ \A k \in CallsOf(opLog[j].closure) :
                        j < k /\ k < i /\ opLog[k].task = opLog[i].task
        /\ IF appends = {}
           THEN currentCleanUp = NoCleanUp
           ELSE /\ currentCleanUp = [res |-> opLog[last].res,
                                     id |-> opLog[last].closure]
                /\ CallsOf(currentCleanUp.id) = {}

\* A closure whose result brought styles was invoked by a later navigation.
C2_Witness ==
    \E k \in OpIdx("cleanup") :
        /\ extraStyles(tasks, opLog[k].res) # <<>>
        /\ opLog[k].task # opLog[k].closure
        /\ tasks[opLog[k].task].pc = "done"

\* A click's prefetch succeeded: it fulfilled, or the anchor carried one.
Succeeded(t) == t \in Range(settled) \/ ~tasks[t].fetched

\* The URLs of the history.pushState calls logged, in order.
RECURSIVE PushedUrls(_)
PushedUrls(log) ==
    IF log = <<>> THEN <<>>
    ELSE LET rest == PushedUrls(Tail(log))
         IN  IF Head(log).op = "pushState" THEN <<Head(log).url>> \o rest
             ELSE rest

\* C3: every opted-in click whose prefetch succeeded has performed exactly
\* one history.pushState, with its anchor's href, and exactly one body
\* replacement, with the body fetched for that href, which is then the
\* document body; a click that has not succeeded has performed neither; the
\* history is the initial entry followed by the pushed URLs (nothing is
\* ever replaced or removed).
C3_OnePushOneBody ==
    /\ \A t \in ClickTasks :
          LET href == Href(tasks[t].target[2])
              pushes == OpsOf("pushState", t)
              bodies == OpsOf("replaceBody", t)
          IN  IF Succeeded(t)
              THEN /\ Cardinality(pushes) = 1
                   /\ \A i \in pushes : opLog[i].url = href
                   /\ Cardinality(bodies) = 1
                   /\ \A i \in bodies :
                         /\ opLog[i].res \in Range(settled)
                         /\ Href(tasks[opLog[i].res].target[2]) = href
                         /\ \A j \in pushes : i < j
              ELSE pushes = {} /\ bodies = {}
    /\ history = <<InitialUrl>> \o PushedUrls(opLog)
    /\ Len(history) = 1 + Cardinality({t \in ClickTasks : Succeeded(t)})
    /\ docBody = IF OpIdx("replaceBody") = {} THEN 0
                 ELSE opLog[CHOOSE i \in OpIdx("replaceBody") :
                               \A m \in OpIdx("replaceBody") : m <= i].res

\* A click that fetched a page bringing styles has been applied after
\* another click's navigation.
C3_Witness ==
    \E a, b \in ClickTasks :
        /\ a # b
        /\ tasks[a].fetched /\ tasks[b].fetched
        /\ tasks[a].pc = "done" /\ tasks[b].pc = "done"
        /\ tasks[b].before.body = a
        /\ tasks[b].ok
        /\ Len(history) = 3

\* The target is not an anchor, or an anchor whose marker is absent or is
\* neither "click" nor "hover".
NotOptedIn(e) ==
    ~IsAnchor(e[2]) \/ (Marker(e[2]) # "click" /\ Marker(e[2]) # "hover")

\* This step dispatches a click that passes the click listener's guards.
OptedClickDispatched ==
    /\ Len(tasks') = Len(tasks) + 1
    /\ tasks'[Len(tasks')].kind = "click"

\* C4: every step in which the click or the mouseover listener handles an
\* event whose target is not opted in leaves event.defaultPrevented false,
\* issues no fetch (starts no task) and leaves the body, the head styles,
\* the history, the cleanup slot and the anchors' augmentation unchanged.
C4_IgnoredTargetsUntouched ==
    [][\A e \in {docBody} \X Templates :
          (NotOptedIn(e) /\ (Click(e) \/ MouseOver(e))) =>
              /\ lastEvent'.defaultPrevented = FALSE
              /\ UNCHANGED <<tasks, hasExtraMethods, currentCleanUp, head,
                             docBody, history, opLog, settled>>]_vars

\* After an applied navigation and with a click still awaiting its fetch, an
\* event on a target that is not opted in has been dispatched (only clicks
\* were handled, and the last event was not prevented).
C4_Witness ==
    /\ HoverTasks = {}
    /\ \E t \in ClickTasks : tasks[t].pc = "fetch"
    /\ docBody # 0
    /\ currentCleanUp # NoCleanUp
    /\ lastEvent.defaultPrevented = FALSE

\* C5: an opted-in click is default-prevented when dispatched; when its
\* fetch fails (it leaves its await without its prefetch having fulfilled)
\* the handler ends rejected and has no effect: the failing step changes
\* neither body, head styles, history nor the cleanup slot, the handler has
\* performed no operation on them and invoked no cleanup, and unless another
\* click's navigation was applied meanwhile all four are as they were when
\* the click was dispatched.
C5_FailedClickNoEffect ==
    [][/\ OptedClickDispatched => lastEvent'.defaultPrevented = TRUE
       /\ \A t \in ClickTasks :
             (/\ tasks[t].pc = "fetch"
              /\ tasks'[t].pc # "fetch"
              /\ t \notin Range(settled')) =>
                 /\ tasks'[t].pc = "rejected"
                 /\ UNCHANGED <<hasExtraMethods, currentCleanUp, head, docBody,
                                history, opLog>>
                 /\ \A i \in 1 .. Len(opLog') : opLog'[i].task # t
                 /\ Len(opLog') = tasks[t].before.ops =>
                        /\ docBody' = tasks[t].before.body
                        /\ head' = tasks[t].before.head
                        /\ history' = tasks[t].before.history
                        /\ currentCleanUp' = tasks[t].before.cleanup]_vars

\* A click dispatched while a cleanup closure with styles was stored has
\* failed, and nothing was applied between its dispatch and its failure.
C5_Witness ==
    \E t \in ClickTasks :
        /\ tasks[t].pc = "rejected"
        /\ tasks[t].before.cleanup # NoCleanUp
        /\ Len(opLog) = tasks[t].before.ops
        /\ currentCleanUp = tasks[t].before.cleanup
        /\ Injected # {}

\* C6: a click on a hover-marked anchor that carries no prefetch result
\* while a hover prefetch for it is in flight issues its own fetch; while it
\* awaits, its fetch can be fulfilled, and once it has been, the click has
\* completed its navigation with its own result (cleanup slot, styles, body,
\* history push), in every state the hover prefetches can be in: in flight,
\* fulfilled or failed, before or after the click's fetch.
C6_ClickDuringHoverPrefetch ==
    \A c \in ClickTasks :
        (/\ Marker(tasks[c].target[2]) = "hover"
         /\ tasks[c].before.methods = NoResult
         /\ tasks[c].before.pending # {}) =>
            /\ tasks[c].fetched
            /\ tasks[c].pc = "fetch" => ENABLED PrefetchFulfils(c, TRUE)
            /\ c \in Range(settled) =>
                  /\ tasks[c].pc = "done"
                  /\ tasks[c].used = c
                  /\ \E i \in OpsOf("appendExtraStyles", c) :
                      \E j \in OpsOf("replaceBody", c) :
                      \E k \in OpsOf("pushState", c) :
                         /\ i < j /\ j < k
                         /\ opLog[i].res = c /\ opLog[j].res = c
                         /\ opLog[k].url = Href(tasks[c].target[2])
                         /\ \A m \in OpsOf("cleanup", c) : m = i - 1

\* A click on a hover-marked anchor has been applied with its own result
\* while the hover prefetch started before it is still in flight.
C6_Witness ==
    \E c \in ClickTasks, h \in HoverTasks :
        /\ h < c
        /\ tasks[h].target = tasks[c].target
        /\ tasks[h].pc = "fetch"
        /\ tasks[c].pc = "done" /\ tasks[c].used = c
        /\ docBody = c

\* The events on element e that passed a listener's guards.
TasksOn(e) == {t \in TaskIds : tasks[t].target = e}

\* C7: an anchor carries a prefetch result only from a fulfilled hover
\* prefetch of that anchor; a click on an anchor that carries one issues no
\* fetch and installs, within its dispatch, the body of that hover prefetch;
\* when the anchor was hovered once and neither hovered nor clicked
\* otherwise, exactly one fetch has been issued for it.
C7_HoverThenClickReuses ==
    /\ \A e \in Elems :
          hasExtraMethods[e] # NoResult =>
              /\ hasExtraMethods[e] \in HoverTasks
              /\ tasks[hasExtraMethods[e]].target = e
              /\ hasExtraMethods[e] \in Range(settled)
    /\ \A c \in ClickTasks :
          tasks[c].before.methods # NoResult =>
              LET e == tasks[c].target
                  h == tasks[c].before.methods
              IN  /\ ~tasks[c].fetched
                  /\ tasks[c].pc = "done"
                  /\ tasks[c].used = h
                  /\ h \in HoverTasks /\ h < c /\ tasks[h].target = e
                  /\ \E j \in OpsOf("replaceBody", c) :
                        /\ opLog[j].res = h
                        /\ \A m \in tasks[c].before.ops + 1 .. j :
                              opLog[m].task = c
                  /\ TasksOn(e) = {h, c} =>
                        {t \in TasksOn(e) : tasks[t].fetched} = {h}

\* An anchor hovered once was clicked after its prefetch fulfilled: the body
\* is the hover's and the hover's fetch is the only one.
C7_Witness ==
    \E c \in ClickTasks, h \in HoverTasks :
        /\ h < c
        /\ tasks[c].target = tasks[h].target
        /\ ~tasks[c].fetched
        /\ tasks[c].used = h
        /\ docBody = h
        /\ {t \in TaskIds : tasks[t].fetched} = {h}

\* Position in the log of the history push of click c (0 if none).
PushAt(c) ==
    IF OpsOf("pushState", c) = {} THEN 0
    ELSE CHOOSE i \in OpsOf("pushState", c) : TRUE

\* C8: no click is cancelled and none waits for another: a click awaiting
\* its fetch can have it fulfilled in every state, every click whose fetch
\* has fulfilled has been applied (body replaced and URL pushed), whatever
\* clicks were dispatched meanwhile, and clicks that fetched were applied in
\* the order in which their fetches fulfilled.
C8_AppliedInResolutionOrder ==
    /\ \A c \in ClickTasks :
          /\ tasks[c].pc = "fetch" => ENABLED PrefetchFulfils(c, TRUE)
          /\ c \in Range(settled) =>
                /\ OpsOf("replaceBody", c) # {}
                /\ OpsOf("pushState", c) # {}
    /\ \A a, b \in ClickTasks :
          (a \in Range(settled) /\ b \in Range(settled)) =>
              (SettledAt(a) < SettledAt(b) <=> PushAt(a) < PushAt(b))

\* Two overlapping clicks: the one dispatched later was applied first, the
\* earlier one was applied after it and its page is the one shown.
C8_Witness ==
    \E a, b \in ClickTasks :
        /\ a < b
        /\ tasks[b].before.ops = tasks[a].before.ops
        /\ PushAt(b) # 0
        /\ PushAt(b) < PushAt(a)
        /\ docBody = a
        /\ history[Len(history)] = Href(tasks[a].target[2])

\* C9 (as claimed): the prefetch fails whenever the fetch rejects or the
\* response has a non-success status, so that no prefetch fulfils for such a
\* response and the body of such a response is never the document body.
C9_NonSuccessNeverInstalled ==
    /\ \A t \in TaskIds : tasks[t].pc = "rejected" => t \notin Range(settled)
    /\ \A t \in Range(settled) : tasks[t].ok
    /\ docBody # 0 => tasks[docBody].ok

\* C10 (as claimed): the failure of a prefetch started by a hover is
\* absorbed: no mouseover listener invocation ends rejected, and a failed
\* hover leaves its anchor without its result.
C10_HoverFailureAbsorbed ==
    \A h \in HoverTasks :
        /\ tasks[h].pc # "rejected"
        /\ h \notin Range(settled) => hasExtraMethods[tasks[h].target] # h

\* C11: whatever the head held and whatever the prefetch result brought,
\* once appendExtraStyles has been called and the closure it returned has
\* been invoked, the closure has raised nothing and the head holds exactly
\* the style elements, in the order, it held before appendExtraStyles.
C11_AppendThenRollbackRestores ==
    trial.phase = "rolledBack" =>
        /\ ~trial.threw
        /\ Range(head) = Range(trial.before)
        /\ head = trial.before

\* A result that brought styles was applied to a head that held other
\* styles, rolled back, and then applied and rolled back once more.
C11_Witness ==
    /\ trial.phase = "rolledBack"
    /\ trial.rounds = 2
    /\ extraStyles(tasks, 1) # <<>>
    /\ Len(trial.before) >= 2

\* C12 (as claimed): the second invocation of a rollback closure raises no
\* error and leaves the head as the first invocation left it.
C12_SecondRollbackSafe ==
    trial.phase = "again" =>
        /\ ~trial.threw
        /\ head = trial.afterFirst

\* The replaceBody calls logged that installed the body of result r.
BodyUses(r) == {i \in OpIdx("replaceBody") : opLog[i].res = r}

\* C13: the style elements the head held before the first navigation are
\* in the head in every reachable state, in their order: the cleanup
\* closures invoked by the navigations remove none of them.
C13_InitialStylesKept ==
    /\ \A x \in Range(InitialHead) : x \in Range(head)
    /\ SelectSeq(head, LAMBDA x : x[1] = 0) = InitialHead

\* A navigation that brought two styles was followed by one that brought
\* none: the cleanup closure ran and the head is the initial head again.
C13_Witness ==
    /\ \E k \in OpIdx("cleanup") : Len(extraStyles(tasks, opLog[k].res)) = 2
    /\ currentCleanUp # NoCleanUp
    /\ head = InitialHead

\* C14: no prefetch result has its body installed more than once, and an
\* anchor that carries a result whose body has been installed is no longer
\* in the document, where a click could use the result again.
C14_BodyUsedAtMostOnce ==
    /\ \A r \in TaskIds : Cardinality(BodyUses(r)) <= 1
    /\ \A e \in Elems :
          (hasExtraMethods[e] # NoResult /\ BodyUses(hasExtraMethods[e]) # {})
              => ~InDocument(e)

\* The result an anchor carries has been used by a click on that anchor.
C14_Witness ==
    \E e \in Elems :
        /\ hasExtraMethods[e] # NoResult
        /\ Cardinality(BodyUses(hasExtraMethods[e])) = 1
        /\ docBody = hasExtraMethods[e]

\* C15 (as claimed): for every anchor at most one fetch has been issued by
\* hovers on it, also while an earlier hover's prefetch is in flight.
C15_OneHoverFetchPerAnchor ==
    \A e \in Elems :
        Cardinality({h \in HoverTasks : tasks[h].target = e /\ tasks[h].fetched})
            <= 1

\* C16: with the clientNavigation flag false, in every state (before and
\* after initializeClientSideNavigation, and after any events) no listener
\* is attached, no event has been default-prevented, no fetch has been
\* issued and body, head, history, cleanup slot and anchors are untouched.
C16_FlagOffInstallsNothing ==
    ~clientNavigation =>
        /\ installed # "document"
        /\ lastEvent.defaultPrevented = FALSE
        /\ tasks = <<>>
        /\ settled = <<>>
        /\ opLog = <<>>
        /\ head = InitialHead
        /\ docBody = 0
        /\ history = <<InitialUrl>>
        /\ currentCleanUp = NoCleanUp
        /\ \A e \in Elems : hasExtraMethods[e] = NoResult

\* With the flag false the controller was initialized and events were
\* dispatched afterwards.
C16_Witness ==
    /\ ~clientNavigation
    /\ installed = "nothing"
    /\ Len(dispatched) = MaxEvents
    /\ "click" \in Range(dispatched)

\* The subscriber invocations made by the step.
NewCalls == SubSeq(calls', Len(calls) + 1, Len(calls'))

\* C17: every notify(v) step with v different from the state held before it
\* stores v and invokes each callback subscribed at that moment once, in
\* subscription order, with v, and no other callback; every notify(v) step
\* with v equal to that state leaves the state and invokes nobody.
C17_NotifyIffChanged ==
    [][\A v \in Values :
          Notify(v) =>
              IF v # state
              THEN /\ state' = v
                   /\ subscribers' = subscribers
                   /\ NewCalls = [i \in 1 .. Len(subscribers) |->
                                     [cb |-> subscribers[i], arg |-> v,
                                      by |-> "notify", held |-> v]]
              ELSE UNCHANGED <<state, subscribers, calls>>]_vars

\* One state-changing notify has invoked two subscribers.
C17_Witness ==
    \E i, j \in 1 .. Len(calls) :
        /\ j = i + 1
        /\ calls[i].by = "notify" /\ calls[j].by = "notify"
        /\ calls[i].cb # calls[j].cb
        /\ calls[i].arg = calls[j].arg
        /\ state = calls[j].arg

\* C18: every subscribe(callback) step invokes callback exactly once and
\* nobody else, within the step, with the state held at that moment, leaves
\* the state unchanged, and the callback is subscribed afterwards.
C18_SubscribeReplaysOnce ==
    [][\A cb \in Callbacks :
          Subscribe(cb) =>
              /\ NewCalls = <<[cb |-> cb, arg |-> state, by |-> "subscribe",
                                held |-> state]>>
              /\ state' = state
              /\ cb \in Range(subscribers')
              /\ raised' = FALSE]_vars

\* Two subscribe calls replayed different values: the state had been
\* changed by a notify between them.
C18_Witness ==
    \E i, j \in 1 .. Len(calls) :
        /\ i < j
        /\ calls[i].by = "subscribe" /\ calls[j].by = "subscribe"
        /\ calls[i].arg # calls[j].arg
        /\ calls[j].arg = state

\* C19: every unsubscribe(callback) step, and every call of the function
\* subscribe returned, leaves callback unsubscribed, invokes nobody, raises
\* nothing and leaves the state; when callback was not subscribed it leaves
\* the subscriber set as well.  A callback that is not subscribed becomes
\* subscribed only by subscribe, and no notify step invokes it.
C19_UnsubscribedNotNotified ==
    [][\A cb \in Callbacks :
          /\ (Unsubscribe(cb) \/ Dispose(cb)) =>
                 /\ cb \notin Range(subscribers')
                 /\ UNCHANGED <<state, calls>>
                 /\ raised' = FALSE
                 /\ cb \notin Range(subscribers) => subscribers' = subscribers
                 /\ \A other \in Callbacks \ {cb} :
                        other \in Range(subscribers') <=>
                            other \in Range(subscribers)
          /\ (cb \notin Range(subscribers) /\ cb \in Range(subscribers'))
                 => Subscribe(cb)
          /\ (cb \notin Range(subscribers) /\ \E v \in Values : Notify(v)) =>
                 \A i \in 1 .. Len(NewCalls) : NewCalls[i].cb # cb]_vars

\* A callback that had been subscribed and unsubscribed was passed over by
\* a notify that invoked another subscriber.
C19_Witness ==
    \E cb \in Callbacks, i \in 1 .. Len(calls) :
        /\ calls[i].by = "notify"
        /\ calls[i].cb # cb
        /\ \E k \in 1 .. i - 1 : calls[k].cb = cb /\ calls[k].by = "subscribe"
        /\ \A k \in 1 .. Len(calls) : calls[k].cb = cb => calls[k].by = "subscribe"
        /\ cb \notin Range(subscribers)

\* The five kinds of event that count as an interaction.
QualifyingEvents == {"click", "scroll", "keydown", "mousemove", "touchstart"}

\* C20: the interaction flag is false exactly as long as no event of the
\* five qualifying kinds has reached the window (so it is false at start and
\* true from the first such event on), and no step takes it from true back
\* to false: it changes value once, at the first qualifying event.
C20_FlagMonotonic ==
    /\ [](state = TRUE <=>
             \E i \in 1 .. Len(dispatched) : dispatched[i] \in QualifyingEvents)
    /\ [][state = TRUE => state' = TRUE]_vars

\* Two qualifying events were handled: at the first a registered callback
\* threw, so trigger was still attached for the second, which removed it.
C20_Witness ==
    /\ state = TRUE
    /\ Len(dispatched) = 2
    /\ \A i \in 1 .. 2 : dispatched[i] \in QualifyingEvents
    /\ \E i \in 1 .. Len(calls) :
          calls[i].by = "notify" /\ calls[i].cb[3] = "throws"
    /\ windowListeners = {}

\* The invocations logged of the user callback of registration n, and the
\* registrations made while the flag was false.
CallbackCalls(n) ==
    {i \in 1 .. Len(calls) : calls[i].cb[1] = "callback" /\ calls[i].cb[2] = n}
RegisteredBefore == {i \in Registrations : calls[i].arg = FALSE}
Interacted == \E i \in 1 .. Len(dispatched) : dispatched[i] \in QualifyingEvents

\* C21 (as claimed): once a qualifying event has been handled, trigger is
\* attached to the window for none of the five events.
C21_ListenersRemovedAfterFirstEvent ==
    Interacted => windowListeners = {}

\* C22: every onFirstInteraction(callback) step taken when the flag is
\* true invokes callback once within the step, and the step is no event.
C22_LateRegistrationFiresAtOnce ==
    [][\A behaviour \in {"returns", "throws"} :
          (onFirstInteraction(behaviour) /\ state = TRUE) =>
              /\ Cardinality({i \in 1 .. Len(NewCalls) :
                                 NewCalls[i].cb = <<"callback",
                                     Cardinality(Registrations) + 1, behaviour>>})
                     = 1
              /\ dispatched' = dispatched]_vars

\* A callback registered after the interaction was invoked by its
\* registration, and no event followed the one that set the flag.
C22_Witness ==
    /\ Len(dispatched) = 1
    /\ \E i \in 1 .. Len(calls) :
          /\ calls[i].cb[1] = "callback"
          /\ calls[i].cb[3] = "returns"
          /\ calls[i].by = "subscribe"

\* C23: the callback of every registration has been invoked at most once,
\* every invocation was made with the flag true, and none is logged while
\* the flag is false.
C23_CallbackAtMostOnce ==
    /\ \A n \in 1 .. MaxRegs + 1 : Cardinality(CallbackCalls(n)) <= 1
    /\ \A i \in 1 .. Len(calls) :
          calls[i].cb[1] = "callback" => calls[i].arg = TRUE
    /\ state = FALSE => \A n \in 1 .. MaxRegs + 1 : CallbackCalls(n) = {}

\* A callback registered before the interaction threw at the first event,
\* so its wrapper stayed subscribed, and a second qualifying event came.
C23_Witness ==
    /\ Len(dispatched) = 2
    /\ \A i \in 1 .. 2 : dispatched[i] \in QualifyingEvents
    /\ \E n \in 1 .. MaxRegs :
          /\ Cardinality(CallbackCalls(n)) = 1
          /\ <<"wrapper", n, "throws">> \in Range(subscribers)
          /\ \E i \in RegisteredBefore : calls[i].cb[2] = n

\* C24 (as claimed): once a qualifying event has been handled, the callback
\* of every registration made before it has been invoked exactly once, and
\* these invocations are in the order of the registrations.
C24_AllFireInOrder ==
    Interacted =>
        /\ \A i \in RegisteredBefore :
              Cardinality(CallbackCalls(calls[i].cb[2])) = 1
        /\ \A i, j \in RegisteredBefore :
              i < j =>
                  \A a \in CallbackCalls(calls[i].cb[2]),
                     b \in CallbackCalls(calls[j].cb[2]) : a < b

\* C25 (as claimed): the wrapper of a registration whose callback has been
\* invoked is not in the subscriber set.
C25_FiredWrapperUnsubscribed ==
    \A n \in 1 .. MaxRegs + 1 :
        CallbackCalls(n) # {} =>
            \A k \in 1 .. Len(subscribers) : subscribers[k][2] # n

\* The script elements added with the source of the diagram library.
MermaidScripts == {i \in 1 .. Len(scripts) : scripts[i].src = MermaidSrc}

\* C26: the promise of every script element is pending exactly as long as
\* the element has received neither a load nor an error event, and once it
\* has, the outcome is the one of the first event (resolved for load,
\* rejected for error) whatever events follow: it settles once and never
\* changes from one outcome to the other.
C26_SettlesOnce ==
    /\ [](\A i \in 1 .. Len(scripts) :
            /\ scripts[i].events = <<>> <=> scripts[i].outcome = "pending"
            /\ scripts[i].events # <<>> =>
                  scripts[i].outcome = IF scripts[i].events[1] = "load"
                                       THEN "resolved" ELSE "rejected")
    /\ [][\A i \in 1 .. Len(scripts) :
             scripts[i].outcome # "pending" =>
                 scripts'[i].outcome = scripts[i].outcome]_vars

\* An element received an error event and then a load event: its promise
\* is rejected.
C26_Witness ==
    \E i \in 1 .. Len(scripts) :
        /\ scripts[i].events = <<"error", "load">>
        /\ scripts[i].outcome = "rejected"

\* C27: the head holds one script element for every call of addScriptToHead
\* made so far (by another module or by the callback of setupMermaid), in
\* the order of the calls and with the source of the call, also for calls
\* that repeat a source and whatever the outcomes of the elements; no step
\* removes an element or changes the source of one.
C27_AlwaysAppends ==
    /\ [](/\ Len(scripts) = Len(requested)
          /\ \A i \in 1 .. Len(requested) : scripts[i].src = requested[i])
    /\ [][/\ Len(scripts') >= Len(scripts)
           /\ \A i \in 1 .. Len(scripts) : scripts'[i].src = scripts[i].src]_vars

\* Two elements with the same source are in the head, the first of them
\* rejected and the second resolved.
C27_Witness ==
    /\ Len(requested) >= 2
    /\ requested[1] = requested[2]
    /\ scripts[1].src = scripts[2].src
    /\ scripts[1].outcome = "rejected"
    /\ scripts[2].outcome = "resolved"

\* C28: whenever the head holds the script of the diagram library, the
\* interaction flag is true, a qualifying event has been dispatched and the
\* page has diagram elements; no step adds that script while the flag stays
\* false; and with no diagram elements setupMermaid registers nothing.
C28_LibraryOnlyAfterInteraction ==
    /\ [](/\ MermaidScripts # {} =>
              /\ state = TRUE
              /\ Interacted
              /\ mermaid.elements > 0
          /\ mermaid.elements = 0 =>
              /\ MermaidScripts = {}
              /\ \A i \in 1 .. Len(calls) : calls[i].cb[3] # "mermaid")
    /\ [][Cardinality(MermaidScripts') > Cardinality(MermaidScripts) =>
             state' = TRUE]_vars

\* setupMermaid ran before any interaction, a non-qualifying event left the
\* library unloaded, and the qualifying event after it added the script.
C28_Witness ==
    /\ dispatched = <<"resize", "scroll">>
    /\ MermaidScripts # {}
    /\ mermaid.classed
    /\ mermaid.pc = "loading"
    /\ \E i \in Registrations :
          calls[i].cb[3] = "mermaid" /\ calls[i].arg = FALSE

\* C29: no rejection of the library's promise is left unhandled; a failed
\* load ends the callback in its catch with one error logged; and the step
\* in which the awaited promise settles, resolved or rejected, changes
\* neither the interaction flag, the subscriber set nor the window
\* listeners, so these are the same after a failure as after a success.
C29_LoadFailureCaught ==
    /\ [](/\ mermaid.unhandled = 0
          /\ mermaid.pc \in {"loaded", "logged"} =>
                /\ mermaid.errors = (IF mermaid.pc = "logged" THEN 1 ELSE 0)
                /\ scripts[mermaid.awaiting].outcome =
                       (IF mermaid.pc = "logged" THEN "rejected" ELSE "resolved"))
    /\ [][(mermaid.pc = "loading" /\ mermaid'.pc # "loading") =>
             /\ mermaid'.pc \in {"loaded", "logged"}
             /\ UNCHANGED <<state, subscribers, windowListeners, raised>>]_vars

\* The library failed to load after the first interaction: the error was
\* logged, the wrapper is unsubscribed and the listeners are removed.
C29_Witness ==
    /\ mermaid.pc = "logged"
    /\ mermaid.errors = 1
    /\ scripts[mermaid.awaiting].outcome = "rejected"
    /\ state = TRUE
    /\ windowListeners = {}
    /\ \A k \in 1 .. Len(subscribers) : subscribers[k][3] # "mermaid"

\* C30: every step that dispatches a click on an opted-in anchor ends with
\* event.defaultPrevented true, in the step of the dispatch itself: when the
\* anchor carries a prefetch result the handler has run to its end without
\* fetching, and otherwise it is suspended at its fetch with the event
\* already prevented.
C30_PreventedAtDispatch ==
    [][\A e \in {docBody} \X Templates :
          (Click(e) /\ ~NotOptedIn(e)) =>
              /\ lastEvent'.defaultPrevented = TRUE
              /\ Len(tasks') = Len(tasks) + 1
              /\ IF hasExtraMethods[e] # NoResult
                 THEN /\ ~tasks'[Len(tasks')].fetched
                      /\ tasks'[Len(tasks')].pc # "fetch"
                 ELSE /\ tasks'[Len(tasks')].fetched
                      /\ tasks'[Len(tasks')].pc = "fetch"]_vars

\* The last event was a click that has to fetch, dispatched and prevented
\* while an earlier click is still awaiting its own fetch.
C30_Witness ==
    /\ Len(tasks) = 2
    /\ \A t \in 1 .. 2 :
          /\ tasks[t].kind = "click"
          /\ tasks[t].pc = "fetch"
          /\ tasks[t].fetched
    /\ lastEvent.defaultPrevented = TRUE

\* C31: in every state (the states are those between two synchronous
\* segments) the document body, the styles injected in the head and the
\* last history entry come from one prefetch result: the body is the one
\* parsed by a prefetch, the injected styles are exactly the styles of that
\* prefetch and the last URL is the href it fetched, or the body is the
\* initial one with nothing injected and the initial URL alone; and the
\* operations one click performed are contiguous in the order of all
\* operations performed.
C31_PageFromOneNavigation ==
    /\ IF docBody = 0
       THEN /\ Injected = {}
            /\ history = <<InitialUrl>>
            /\ currentCleanUp = NoCleanUp
       ELSE /\ docBody \in TaskIds
            /\ Injected = Range(extraStyles(tasks, docBody))
            /\ history[Len(history)] = Href(tasks[docBody].target[2])
            /\ currentCleanUp.res = docBody
    /\ \A i, j, k \in 1 .. Len(opLog) :
          (i < j /\ j < k /\ opLog[i].task = opLog[k].task) =>
              opLog[j].task = opLog[i].task

\* Two clicks on anchors with different hrefs overlapped and were applied
\* in the reverse of their click order; the page is the one of the click
\* applied last.
C31_Witness ==
    \E a, b \in ClickTasks :
        /\ a < b
        /\ Href(tasks[a].target[2]) # Href(tasks[b].target[2])
        /\ tasks[a].pc = "done" /\ tasks[b].pc = "done"
        /\ tasks[b].before.ops = 0
        /\ SettledAt(b) < SettledAt(a)
        /\ docBody = a
        /\ history[Len(history)] = Href(tasks[a].target[2])
        /\ OpsOf("cleanup", a) # {}

\* C32: with the listeners attached to the document and a body that a
\* navigation has put in place, a click on every opted-in anchor of that
\* body can be dispatched and is default-prevented, and every such click
\* dispatched ends default-prevented with its handler started (run to its
\* end with the anchor's result, or suspended at its own fetch).
C32_InterceptionSurvives ==
    /\ [](\A e \in {docBody} \X Templates :
            (/\ installed = "document"
             /\ docBody # 0
             /\ ~NotOptedIn(e)
             /\ Len(tasks) < MaxTasks) =>
                ENABLED (ClickEvent(e) /\ lastEvent'.defaultPrevented = TRUE))
    /\ [][\A e \in {docBody} \X Templates :
             (docBody # 0 /\ ~NotOptedIn(e) /\ ClickEvent(e)) =>
                 /\ lastEvent'.defaultPrevented = TRUE
                 /\ Len(tasks') = Len(tasks) + 1
                 /\ tasks'[Len(tasks')].target = e
                 /\ UNCHANGED dispatched]_vars

\* A click on an anchor of a body that a first navigation had put in place
\* was handled and applied: the document is at its second replaced body.
C32_Witness ==
    /\ installed = "document"
    /\ \E a, b \in ClickTasks :
          /\ tasks[a].pc = "done"
          /\ tasks[b].target[1] = a
          /\ tasks[b].before.body = a
          /\ tasks[b].pc = "done"
          /\ docBody = b
    /\ Len(history) = 3
    /\ lastEvent.defaultPrevented = TRUE

\* C33 (as claimed): from every state either variant reaches, what the
\* variant does with a click or a mouseover on an element of the document
\* is what the listeners attached to the document do with it: the same
\* preventDefault decision, the same fetch started or not, and the same
\* cleanup, style, body and history operations.
C33_VariantsEquivalent ==
    [][\A e \in {docBody} \X Templates :
          /\ VariantClick(e) => Click(e)
          /\ VariantMouseOver(e) => MouseOver(e)]_vars

C35_HoverOnlyAugments ==
    [][/\ \A e \in {docBody} \X Templates :
             MouseOver(e) =>
                 /\ lastEvent'.defaultPrevented = FALSE
                 /\ UNCHANGED <<docBody, head, history, currentCleanUp, opLog,
                                hasExtraMethods>>
       /\ \A h \in HoverTasks :
             (tasks[h].pc = "fetch" /\ tasks'[h].pc # "fetch") =>
                 /\ UNCHANGED <<docBody, head, history, currentCleanUp, opLog,
                                lastEvent>>
                 /\ \A x \in Elems :
                       x # tasks[h].target =>
                           hasExtraMethods'[x] = hasExtraMethods[x]]_vars

\* A hover prefetch fulfilled after a click's navigation had replaced the
\* body: the anchor of the old body is augmented and the page is the
\* click's.
C35_Witness ==
    \E h \in HoverTasks, c \in ClickTasks :
        /\ tasks[h].pc = "done"
        /\ tasks[c].pc = "done"
        /\ SettledAt(c) # 0
        /\ SettledAt(c) < SettledAt(h)
        /\ hasExtraMethods[tasks[h].target] = h
        /\ tasks[h].target[1] # docBody
        /\ docBody = c
        /\ Injected = Range(extraStyles(tasks, c))

\* C36 (as claimed): every call of onFirstInteraction with a callback that
\* returns ends without an error raised to its caller, whether the
\* interaction flag is false or true when it is called.
C36_RegistrationReturnsNormally ==
    [][onFirstInteraction("returns") => raised' = FALSE]_vars

\* C37: every subscriber invocation logged, made by subscribe's replay or
\* by notify, by the outer or by a re-entrant notification, was passed the
\* value getState() returned when it was made.
C37_PassedValueIsState ==
    \A i \in 1 .. Len(calls) : calls[i].arg = calls[i].held

\* A subscriber called notify("a") while being notified of "b": the inner
\* notification told both subscribers "a", and the outer one then invoked
\* the subscriber after it with "a" as well.
C37_Witness ==
    \E i \in 1 .. Len(calls) :
        /\ i + 3 <= Len(calls)
        /\ calls[i].cb[1] = "renotifier" /\ calls[i].arg = "b"
        /\ calls[i + 1].cb[1] = "renotifier" /\ calls[i + 1].arg = "a"
        /\ calls[i + 2].cb[1] = "recorder" /\ calls[i + 2].arg = "a"
        /\ calls[i + 3].cb[1] = "recorder" /\ calls[i + 3].arg = "a"
        /\ \A k \in i .. i + 3 : calls[k].by = "notify"
        /\ state = "a"

\* C38: the subscriber set never holds a callback twice; a subscribe step
\* of a callback that is subscribed replays it once and leaves the set as
\* it is; a state-changing notify step invokes every subscribed callback
\* exactly once; after an unsubscribe step the callback is not subscribed,
\* however often it had been subscribed, and a notify step invokes no
\* callback that is not subscribed.
C38_SingleRegistration ==
    /\ [](\A i, j \in 1 .. Len(subscribers) :
            subscribers[i] = subscribers[j] => i = j)
    /\ [][\A cb \in Callbacks :
             /\ (cb \in Range(subscribers) /\ Subscribe(cb)) =>
                    /\ subscribers' = subscribers
                    /\ Len(NewCalls) = 1
             /\ (cb \in Range(subscribers) /\ \E v \in Values \ {state} : Notify(v)) =>
                    Cardinality({i \in 1 .. Len(NewCalls) : NewCalls[i].cb = cb}) = 1
             /\ (Unsubscribe(cb) \/ Dispose(cb)) =>
                    cb \notin Range(subscribers')
             /\ (cb \notin Range(subscribers) /\ \E v \in Values : Notify(v)) =>
                    {i \in 1 .. Len(NewCalls) : NewCalls[i].cb = cb} = {}]_vars

\* A callback was subscribed twice, a notify then invoked it once, and one
\* unsubscribe has removed it.
C38_Witness ==
    \E cb \in Callbacks :
        /\ Len(calls) = 3
        /\ calls[1].cb = cb /\ calls[1].by = "subscribe"
        /\ calls[2].cb = cb /\ calls[2].by = "subscribe"
        /\ calls[3].cb = cb /\ calls[3].by = "notify"
        /\ subscribers = <<>>

\* C39 (as claimed): in the step handling the first qualifying event while
\* a registered callback throws, the callback of every registration is
\* invoked and no window listener is left attached.
C39_ThrowingCallbackIsolated ==
    [][\A type \in QualifyingEvents :
          (/\ WindowEvent(type)
           /\ state = FALSE
           /\ \E k \in 1 .. Len(subscribers) : subscribers[k][3] = "throws") =>
              /\ \A k \in 1 .. Len(subscribers) :
                    \E i \in 1 .. Len(NewCalls) :
                        NewCalls[i].cb = <<"callback", subscribers[k][2],
                                           subscribers[k][3]>>
              /\ windowListeners' = {}]_vars

====
